---- MODULE Spec2Model ----
(***************************************************************************)
(* A model of package logging (InfinityTools/go-logging): the Logger       *)
(* struct, its configuration methods, the emission pipeline logf with its  *)
(* write-failure recursion, and the prefix override stack.                 *)
(*                                                                         *)
(* Strings are sequences of tokens, so that concatenation and formatting   *)
(* are computed.  A Writer is named by a string; the nil Writer is NIL.    *)
(* The outcome of each Write is chosen by the environment: the parameter   *)
(* "fails" of an emission says how many of its successive writes fail.     *)
(***************************************************************************)
EXTENDS Integers, Sequences, FiniteSets, TLC

\* ---------------------------------------------------------------- levels
LOG == 0
INFO == 1
WARN == 2
ERROR == 3
CRITICAL == 4

Levels == LOG..CRITICAL

\* ---------------------------------------------------------------- bounds
\* Most override layers a client leaves pending at a time.
MaxLayers == 2
\* Nested logf frames the goroutine stack holds before the runtime stops the
\* process with "fatal error: stack overflow".
StackLimit == 2
\* The width of int.  Go's int has 64 bits on the platforms the package builds
\* for; the model keeps the two's-complement wraparound at this width.
IntBits == 6
\* Largest range and largest bar length a client of Progress passes.
MaxRange == 6
MaxProgress == 6

\* ---------------------------------------------------------------- writers
NIL == "nil"
Stdout == "os.Stdout"
Stderr == "os.Stderr"
Writers == {Stdout, Stderr}

\* Level arguments a client passes, valid or not.
LevelArgs == (LOG - 1)..(CRITICAL + 1)

VARIABLES verbosity, output, overrideStack, prefixTS, prefixLevel, prefixCaller,
          call, written, outcome, bar

logger == <<verbosity, output, overrideStack, prefixTS, prefixLevel, prefixCaller>>
vars == <<verbosity, output, overrideStack, prefixTS, prefixLevel, prefixCaller,
          call, written, outcome, bar>>

\* The Logger as a value, for the methods below.
Self ==
  [verbosity |-> verbosity, output |-> output, overrideStack |-> overrideStack,
   prefixTS |-> prefixTS, prefixLevel |-> prefixLevel, prefixCaller |-> prefixCaller]

\* ---------------------------------------------------------------- strings
\* fmt.Sprintf on a format of literal tokens and "%s"/"%v" verbs: a verb takes
\* the next operand, or reads "%!s(MISSING)" when none is left; operands left
\* over are reported at the end.
RECURSIVE Sprintf(_, _)
Sprintf(format, a) ==
  IF format = <<>>
  THEN IF a = <<>> THEN <<>> ELSE <<"%!(EXTRA ">> \o a \o <<")">>
  ELSE IF Head(format) \in {"%s", "%v"}
       THEN IF a = <<>>
            THEN <<"%!", Head(format), "(MISSING)">> \o Sprintf(Tail(format), a)
            ELSE <<Head(a)>> \o Sprintf(Tail(format), Tail(a))
       ELSE <<Head(format)>> \o Sprintf(Tail(format), a)

\* ---------------------------------------------------------------- Logger
NewLogger ==
  [verbosity |-> INFO,
   output |-> [lv \in Levels |-> IF lv \in {LOG, INFO} THEN Stdout ELSE Stderr],
   overrideStack |-> <<>>,
   prefixTS |-> FALSE, prefixLevel |-> FALSE, prefixCaller |-> FALSE]

\* SetVerbosity without its second if: a level above CRITICAL is stored as is.
ClampLevelNoCeiling(level) == IF level < LOG THEN LOG ELSE level

\* SetVerbosity's two ifs.
ClampLevel(level) ==
  LET lo == IF level < LOG THEN LOG ELSE level
  IN  IF lo > CRITICAL THEN CRITICAL ELSE lo

GetOutput(l, level) ==
  IF level < LOG \/ level > CRITICAL THEN NIL ELSE l.output[level]

\* The switch of SetOutput for a nil writer.  A Go case does not fall
\* through: "case WARN:" and "case ERROR:" have empty bodies and leave the
\* writer nil; only CRITICAL is given os.Stderr, every other level os.Stdout.
NilWriterSwitch(level) ==
  CASE level = WARN -> NIL
    [] level = ERROR -> NIL
    [] level = CRITICAL -> Stderr
    [] OTHER -> Stdout

SetOutputMap(l, level, writer) ==
  IF level < LOG \/ level > CRITICAL
  THEN l.output
  ELSE [l.output EXCEPT ![level] = IF writer = NIL THEN NilWriterSwitch(level) ELSE writer]

\* getOutput reading the defaults of NewLogger rather than the map.
getOutputDefault(l, level) ==
  LET lo == IF level < LOG THEN LOG ELSE level
      lv == IF lo > CRITICAL THEN CRITICAL ELSE lo
  IN  IF lv \in {LOG, INFO} THEN Stdout ELSE Stderr

getOutput(l, level) ==
  LET lo == IF level < LOG THEN LOG ELSE level
      lv == IF lo > CRITICAL THEN CRITICAL ELSE lo
  IN  l.output[lv]

getLevelString(level) ==
  LET lo == IF level < LOG THEN LOG ELSE level
      lv == IF lo > CRITICAL THEN CRITICAL ELSE lo
  IN  CASE lv = LOG -> "LOG "
        [] lv = INFO -> "INFO"
        [] lv = WARN -> "WARN"
        [] lv = ERROR -> "ERRO"
        [] lv = CRITICAL -> "CRIT"
        [] OTHER -> "    "

\* The prefix: timestamp, caller and level label, each followed by a space.
getLogPrefix(l, level) ==
  (IF l.prefixTS THEN <<"<timestamp>", " ">> ELSE <<>>)
  \o (IF l.prefixCaller THEN <<"<caller>:<line> ">> ELSE <<>>)
  \o (IF l.prefixLevel THEN <<getLevelString(level), " ">> ELSE <<>>)

pushOverride(l, ts, caller, level) ==
  [l EXCEPT !.overrideStack = @ \o <<l.prefixTS, l.prefixCaller, l.prefixLevel>>,
            !.prefixTS = ts, !.prefixCaller = caller, !.prefixLevel = level]

\* popOverride unwinding the whole stack: the oldest saved triple is restored.
popOverrideAll(l) ==
  IF Len(l.overrideStack) > 2
  THEN [l EXCEPT !.prefixTS = l.overrideStack[1],
                 !.prefixCaller = l.overrideStack[2],
                 !.prefixLevel = l.overrideStack[3],
                 !.overrideStack = <<>>]
  ELSE l

popOverride(l) ==
  IF Len(l.overrideStack) > 2
  THEN LET idx == Len(l.overrideStack) - 3   \* 0-based, as in the code
       IN  [l EXCEPT !.prefixTS = l.overrideStack[idx + 1],
                     !.prefixCaller = l.overrideStack[idx + 2],
                     !.prefixLevel = l.overrideStack[idx + 3],
                     !.overrideStack = SubSeq(l.overrideStack, 1, idx)]
  ELSE l

\* ---------------------------------------------------------------- logf
DiagFormat == <<"logging.Logf(): ", "%v">>
WriteError == "<write error>"
NilDeref == <<"runtime error: invalid memory address or nil pointer dereference">>
StackOverflow == <<"fatal error: stack overflow">>

\* The comparison written strictly: a message at the verbosity itself is dropped.
shouldLogStrict(l, level) == level > l.verbosity

\* "if level >= l.verbosity": the message is emitted.
shouldLog(l, level) == level >= l.verbosity

\* "if w == nil { w = l.getOutput(level) }": where the message is written.
Destination(l, w, level) == IF w = NIL THEN getOutput(l, level) ELSE w

\* The diagnostic sent to the writer configured for ERROR.
DiagWriterConfigured(l) == l.output[ERROR]

\* The writer logf passes for the diagnostic of a failed write.
DiagWriter(l) == Stderr

\* One attempted Write: the writer, the level of the logf frame, the text
\* handed to Fprintf, and whether Write returned an error.
Written(w, level, text, err) == [w |-> w, level |-> level, text |-> text, err |-> err]

\* One call of logf, with the Logger l it runs on.  The write of the frame at
\* depth d fails iff d < fails.  The result holds the Logger afterwards, the
\* writes attempted in order, and how the call ended: "returned", "panic"
\* (with the payload) or "fatal" (the runtime stops the process when the
\* recursion outgrows the stack).  A panic or a fatal error leaves logf
\* before its popOverride.
RECURSIVE logf(_, _, _, _, _, _, _)
logf(l, w, level, format, a, fails, depth) ==
  LET lv == IF level > CRITICAL THEN CRITICAL ELSE level
  IN
  IF depth >= StackLimit
  THEN [l |-> l, written |-> <<>>, result |-> "fatal", payload |-> StackOverflow]
  ELSE IF shouldLog(l, lv)
  THEN IF lv = CRITICAL
       THEN [l |-> l, written |-> <<>>, result |-> "panic", payload |-> Sprintf(format, a)]
       ELSE LET dst == Destination(l, w, lv)
                prefix == getLogPrefix(l, lv)
                msg == Sprintf(format, a)
            IN
            IF dst = NIL
            THEN \* Fprintf calls Write on a nil io.Writer
                 [l |-> l, written |-> <<>>, result |-> "panic", payload |-> NilDeref]
            ELSE IF depth < fails
            THEN LET wr == Written(dst, lv, prefix \o msg, TRUE)
                     r == logf(l, DiagWriter(l), ERROR, DiagFormat, <<WriteError>>,
                               fails, depth + 1)
                 IN  IF r.result = "returned"
                     THEN [l |-> popOverride(r.l), written |-> <<wr>> \o r.written,
                           result |-> "returned", payload |-> <<>>]
                     ELSE [r EXCEPT !.written = <<wr>> \o @]
            ELSE [l |-> popOverride(l),
                  written |-> <<Written(dst, lv, prefix \o msg, FALSE)>>,
                  result |-> "returned", payload |-> <<>>]
  ELSE [l |-> popOverride(l), written |-> <<>>, result |-> "returned", payload |-> <<>>]

\* ---------------------------------------------------------------- Progress
\* int arithmetic: results wrap around at IntBits bits, and "/" truncates
\* toward zero (the divisor is positive wherever Progress divides).
MaxInt == 2 ^ (IntBits - 1) - 1
MinInt == -(2 ^ (IntBits - 1))
Wrap(x) == ((x - MinInt) % (2 ^ IntBits)) + MinInt
Quo(x, y) == IF x >= 0 THEN x \div y ELSE -((-x) \div y)

\* "for ; i2 > i1; i1++ { s += symbol }": n copies of symbol, none if n <= 0.
RECURSIVE Repeat(_, _)
Repeat(symbol, n) == IF n <= 0 THEN <<>> ELSE symbol \o Repeat(symbol, n - 1)

\* Progress giving every position the same share of the bar, progressMax/max.
ProgressEvenShare(cur, max, progressMax, symbol) ==
  IF max < 1 \/ progressMax < 1 THEN <<>>
  ELSE IF cur < 0 \/ cur >= max THEN <<>>
  ELSE Repeat(symbol, Quo(progressMax, max))

Progress(cur, max, progressMax, symbol) ==
  IF max < 1 \/ progressMax < 1 THEN <<>>
  ELSE IF cur < 0 \/ cur >= max THEN <<>>
  ELSE LET i1 == Quo(Wrap(cur * progressMax), max)
           i2 == Quo(Wrap(Wrap(cur + 1) * progressMax), max)
       IN  Repeat(symbol, i2 - i1)

\* ---------------------------------------------------------------- inputs
\* What the client passes: a message that holds a verb, the operands of a
\* formatted call, the text of a ...ln call, and progress positions giving
\* one symbol, none, and two, the symbol being "." or one that holds a "%".
Msgs == {<<"m", "%s">>}
FormatArgs == {<<"x">>}
ProgressArgs == {<<0, 1, 1, <<".">>>>, <<0, 2, 1, <<".">>>>, <<0, 1, 2, <<"%s">>>>}
\* Symbols of a progress bar: one character, two, and the empty string.
Symbols == {<<".">>, <<"=", ">">>, <<>>}
OverrideArgs ==
  {<<FALSE, FALSE, FALSE>>, <<TRUE, FALSE, FALSE>>, <<FALSE, TRUE, FALSE>>,
   <<FALSE, FALSE, TRUE>>, <<TRUE, TRUE, TRUE>>}

\* ---------------------------------------------------------------- state
Running == outcome.result # "fatal"

Called(op, level, format, a) == [op |-> op, level |-> level, format |-> format, a |-> a]

SetLogger(l) ==
  /\ verbosity' = l.verbosity
  /\ output' = l.output
  /\ overrideStack' = l.overrideStack
  /\ prefixTS' = l.prefixTS
  /\ prefixLevel' = l.prefixLevel
  /\ prefixCaller' = l.prefixCaller

\* A configuration call: it writes nothing and returns, ret being the tuple
\* of the values it returns.
ConfigureRet(op, level, a, l, ret) ==
  /\ Running
  /\ SetLogger(l)
  /\ call' = Called(op, level, <<>>, a)
  /\ written' = <<>>
  /\ outcome' = [result |-> "returned", payload |-> ret]
  /\ UNCHANGED bar

Configure(op, level, a, l) == ConfigureRet(op, level, a, l, <<>>)

\* A call that ends in logf on the Logger l.
Emit(op, l, level, format, a, fails) ==
  /\ Running
  /\ LET r == logf(l, getOutput(l, level), level, format, a, fails, 0)
     IN  /\ SetLogger(r.l)
         /\ written' = r.written
         /\ outcome' = [result |-> r.result, payload |-> r.payload]
  /\ call' = Called(op, level, format, a)
  /\ UNCHANGED bar

\* A client's progress loop: the arguments it passes to Progress, cur being
\* the next position, and what it has printed of the bar so far.
NewBar(max, progressMax, symbol) ==
  [cur |-> -1, max |-> max, progressMax |-> progressMax, symbol |-> symbol,
   printed |-> <<>>]

Init ==
  /\ verbosity = NewLogger.verbosity
  /\ output = NewLogger.output
  /\ overrideStack = NewLogger.overrideStack
  /\ prefixTS = NewLogger.prefixTS
  /\ prefixLevel = NewLogger.prefixLevel
  /\ prefixCaller = NewLogger.prefixCaller
  /\ call = Called("NewLogger", INFO, <<>>, <<>>)
  /\ written = <<>>
  /\ outcome = [result |-> "returned", payload |-> <<>>]
  /\ bar = NewBar(0, 0, <<>>)

\* ---------------------------------------------------------------- configuration
SetVerbosity(level) ==
  Configure("SetVerbosity", level, <<>>, [Self EXCEPT !.verbosity = ClampLevel(level)])

\* IncreaseVerbosity testing "<= CRITICAL": one step past the highest level.
increasedPastCritical(l) ==
  [l EXCEPT !.verbosity = IF @ <= CRITICAL THEN @ + 1 ELSE @]

\* "if l.verbosity < CRITICAL { l.verbosity++ }"
increased(l) == [l EXCEPT !.verbosity = IF @ < CRITICAL THEN @ + 1 ELSE @]

\* "if l.verbosity > LOG { l.verbosity-- }"
decreased(l) == [l EXCEPT !.verbosity = IF @ > LOG THEN @ - 1 ELSE @]

IncreaseVerbosity ==
  ConfigureRet("IncreaseVerbosity", 0, <<>>, increased(Self),
               <<increased(Self).verbosity>>)

DecreaseVerbosity ==
  ConfigureRet("DecreaseVerbosity", 0, <<>>, decreased(Self),
               <<decreased(Self).verbosity>>)

SetPrefixTimestamp(set) ==
  Configure("SetPrefixTimestamp", 0, <<set>>, [Self EXCEPT !.prefixTS = set])

SetPrefixCaller(set) ==
  Configure("SetPrefixCaller", 0, <<set>>, [Self EXCEPT !.prefixCaller = set])

SetPrefixLevel(set) ==
  Configure("SetPrefixLevel", 0, <<set>>, [Self EXCEPT !.prefixLevel = set])

SetOutput(level, writer) ==
  Configure("SetOutput", level, <<writer>>,
            [Self EXCEPT !.output = SetOutputMap(Self, level, writer)])

OverridePrefix(showTimestamp, showCaller, showLevel) ==
  /\ Len(overrideStack) < 3 * MaxLayers
  /\ Configure("OverridePrefix", 0, <<showTimestamp, showCaller, showLevel>>,
               pushOverride(Self, showTimestamp, showCaller, showLevel))

\* ---------------------------------------------------------------- emission
Log(msg, fails) == Emit("Log", Self, LOG, msg, <<>>, fails)
Info(msg, fails) == Emit("Info", Self, INFO, msg, <<>>, fails)
Warn(msg, fails) == Emit("Warn", Self, WARN, msg, <<>>, fails)
Error(msg, fails) == Emit("Error", Self, ERROR, msg, <<>>, fails)
Critical(msg, fails) == Emit("Critical", Self, CRITICAL, msg, <<>>, fails)

Logf(format, a, fails) == Emit("Logf", Self, LOG, format, a, fails)
Infof(format, a, fails) == Emit("Infof", Self, INFO, format, a, fails)
Warnf(format, a, fails) == Emit("Warnf", Self, WARN, format, a, fails)
Errorf(format, a, fails) == Emit("Errorf", Self, ERROR, format, a, fails)
Criticalf(format, a, fails) == Emit("Criticalf", Self, CRITICAL, format, a, fails)

Logln(msg, fails) == Emit("Logln", Self, LOG, <<"%s", "\n">>, msg, fails)
Infoln(msg, fails) == Emit("Infoln", Self, INFO, <<"%s", "\n">>, msg, fails)
Warnln(msg, fails) == Emit("Warnln", Self, WARN, <<"%s", "\n">>, msg, fails)
Errorln(msg, fails) == Emit("Errorln", Self, ERROR, <<"%s", "\n">>, msg, fails)
Criticalln(msg, fails) == Emit("Criticalln", Self, CRITICAL, <<"%s", "\n">>, msg, fails)

\* ---------------------------------------------------------------- progress
\* The body the four XProgress methods share, for the level of each.
XProgress(op, level, cur, max, progressMax, symbol, fails) ==
  LET s == Progress(cur, max, progressMax, symbol)
  IN  IF Len(s) > 0
      THEN /\ Len(overrideStack) < 3 * MaxLayers
           /\ Emit(op, pushOverride(Self, FALSE, FALSE, FALSE), level, s, <<>>, fails)
      ELSE Configure(op, level, <<>>, Self)

LogProgress(cur, max, progressMax, symbol, fails) ==
  XProgress("LogProgress", LOG, cur, max, progressMax, symbol, fails)
InfoProgress(cur, max, progressMax, symbol, fails) ==
  XProgress("InfoProgress", INFO, cur, max, progressMax, symbol, fails)
WarnProgress(cur, max, progressMax, symbol, fails) ==
  XProgress("WarnProgress", WARN, cur, max, progressMax, symbol, fails)
ErrorProgress(cur, max, progressMax, symbol, fails) ==
  XProgress("ErrorProgress", ERROR, cur, max, progressMax, symbol, fails)

\* ---------------------------------------------------------------- specifications
\* How many of an emission's successive writes fail: none, some, or all of
\* them until the stack is exhausted.
Fails == 0..StackLimit

Verbosity ==
  \/ \E level \in LevelArgs : SetVerbosity(level)
  \/ IncreaseVerbosity
  \/ DecreaseVerbosity

Emission ==
  \/ \E msg \in Msgs, fails \in Fails : Log(msg, fails)
  \/ \E msg \in Msgs, fails \in Fails : Info(msg, fails)
  \/ \E msg \in Msgs, fails \in Fails : Warn(msg, fails)
  \/ \E msg \in Msgs, fails \in Fails : Error(msg, fails)
  \/ \E msg \in Msgs, fails \in Fails : Critical(msg, fails)
  \/ \E format \in Msgs, a \in FormatArgs, fails \in Fails : Logf(format, a, fails)
  \/ \E format \in Msgs, a \in FormatArgs, fails \in Fails : Infof(format, a, fails)
  \/ \E format \in Msgs, a \in FormatArgs, fails \in Fails : Warnf(format, a, fails)
  \/ \E format \in Msgs, a \in FormatArgs, fails \in Fails : Errorf(format, a, fails)
  \/ \E format \in Msgs, a \in FormatArgs, fails \in Fails : Criticalf(format, a, fails)
  \/ \E msg \in FormatArgs, fails \in Fails : Logln(msg, fails)
  \/ \E msg \in FormatArgs, fails \in Fails : Infoln(msg, fails)
  \/ \E msg \in FormatArgs, fails \in Fails : Warnln(msg, fails)
  \/ \E msg \in FormatArgs, fails \in Fails : Errorln(msg, fails)
  \/ \E msg \in FormatArgs, fails \in Fails : Criticalln(msg, fails)
  \/ \E p \in ProgressArgs, fails \in Fails : LogProgress(p[1], p[2], p[3], p[4], fails)
  \/ \E p \in ProgressArgs, fails \in Fails : InfoProgress(p[1], p[2], p[3], p[4], fails)
  \/ \E p \in ProgressArgs, fails \in Fails : WarnProgress(p[1], p[2], p[3], p[4], fails)
  \/ \E p \in ProgressArgs, fails \in Fails : ErrorProgress(p[1], p[2], p[3], p[4], fails)

\* Sinks: a client that sets the verbosity, redirects the levels' outputs and
\* logs, with the prefixes as constructed.
Next ==
  \/ Verbosity
  \/ \E level \in LevelArgs, writer \in Writers \cup {NIL} : SetOutput(level, writer)
  \/ Emission

Spec == Init /\ [][Next]_vars

\* Overrides: a client that sets the verbosity, overrides the prefixes and
\* logs, with the outputs as constructed.
NextOverride ==
  \/ Verbosity
  \/ \E o \in OverrideArgs : OverridePrefix(o[1], o[2], o[3])
  \/ Emission

SpecOverride == Init /\ [][NextOverride]_vars

\* Progress bars: a client that prints a bar by calling Progress for the
\* position before the range, every position of it and the one after it, and
\* appending what each call returns.
InitProgress ==
  /\ verbosity = NewLogger.verbosity
  /\ output = NewLogger.output
  /\ overrideStack = NewLogger.overrideStack
  /\ prefixTS = NewLogger.prefixTS
  /\ prefixLevel = NewLogger.prefixLevel
  /\ prefixCaller = NewLogger.prefixCaller
  /\ call = Called("NewLogger", INFO, <<>>, <<>>)
  /\ written = <<>>
  /\ outcome = [result |-> "returned", payload |-> <<>>]
  /\ \E max \in -1..MaxRange, progressMax \in -1..MaxProgress, symbol \in Symbols :
       bar = NewBar(max, progressMax, symbol)

ProgressCall ==
  /\ bar.cur <= (IF bar.max > 0 THEN bar.max ELSE 0)
  /\ LET s == Progress(bar.cur, bar.max, bar.progressMax, bar.symbol)
     IN  /\ bar' = [bar EXCEPT !.cur = Wrap(@ + 1), !.printed = @ \o s]
         /\ outcome' = [result |-> "returned", payload |-> s]
  /\ call' = Called("Progress", 0, <<>>, <<bar.cur, bar.max, bar.progressMax, bar.symbol>>)
  /\ written' = <<>>
  /\ UNCHANGED logger

NextProgress == ProgressCall

SpecProgress == InitProgress /\ [][NextProgress]_vars

\* Prefixes: a client that sets the prefix flags, overrides them and logs
\* below, at and above the verbosity, which stays as constructed, as do the
\* outputs.
NextPrefix ==
  \/ \E set \in BOOLEAN : SetPrefixTimestamp(set)
  \/ \E set \in BOOLEAN : SetPrefixCaller(set)
  \/ \E set \in BOOLEAN : SetPrefixLevel(set)
  \/ \E o \in OverrideArgs : OverridePrefix(o[1], o[2], o[3])
  \/ \E msg \in Msgs, fails \in Fails : Log(msg, fails)
  \/ \E msg \in Msgs, fails \in Fails : Info(msg, fails)
  \/ \E msg \in Msgs, fails \in Fails : Critical(msg, fails)

SpecPrefix == Init /\ [][NextPrefix]_vars

\* ================================================================ claims
CriticalOps == {"Critical", "Criticalf", "Criticalln"}
LeveledOps ==
  {"Log", "Logf", "Logln", "Info", "Infof", "Infoln",
   "Warn", "Warnf", "Warnln", "Error", "Errorf", "Errorln"}
ProgressOps == {"LogProgress", "InfoProgress", "WarnProgress", "ErrorProgress"}

\* The sinks the documentation gives each level: standard output for LOG and
\* INFO, standard error for WARN, ERROR and CRITICAL.
DocumentedDefault(level) == IF level \in {LOG, INFO} THEN Stdout ELSE Stderr

\* C1: after SetOutput(L, nil) for a valid level L, L is mapped to its
\* documented default sink, so GetOutput(L) is not nil.
C1_NilRestoresDefault ==
  (call.op = "SetOutput" /\ call.level \in Levels /\ call.a = <<NIL>>)
    => /\ GetOutput(Self, call.level) = DocumentedDefault(call.level)
       /\ GetOutput(Self, call.level) # NIL

\* C2: a Critical/Criticalf/Criticalln call panics with exactly the formatted
\* message as payload and writes to no sink, whatever the verbosity, the
\* sinks and the pending overrides.
C2_CriticalPanics ==
  call.op \in CriticalOps
    => /\ outcome.result = "panic"
       /\ outcome.payload = Sprintf(call.format, call.a)
       /\ written = <<>>

\* C2 witness: Criticalln("x") at verbosity CRITICAL, with a nil sink
\* configured and an override layer pending, panicked with "x\n".
C2_Witness ==
  /\ call.op = "Criticalln"
  /\ verbosity = CRITICAL
  /\ \E lv \in Levels : output[lv] = NIL
  /\ overrideStack # <<>>
  /\ outcome = [result |-> "panic", payload |-> <<"x", "\n">>]

\* C3: no emission at LOG, INFO, WARN or ERROR and no XProgress call raises
\* a fault, after any sequence of configuration calls.
C3_OnlyCriticalRaises ==
  call.op \in LeveledOps \cup ProgressOps => outcome.result # "panic"

\* C10: SetVerbosity(L) leaves GetVerbosity() = min(max(L, LOG), CRITICAL)
\* for every integer L, and the verbosity always lies in [LOG, CRITICAL].
C10_VerbosityClamped ==
  /\ verbosity \in LOG..CRITICAL
  /\ call.op = "SetVerbosity"
       => /\ call.level <= LOG => verbosity = LOG
          /\ call.level >= CRITICAL => verbosity = CRITICAL
          /\ (LOG < call.level /\ call.level < CRITICAL) => verbosity = call.level

\* C10 witness: SetVerbosity(CRITICAL + 1) left the verbosity at CRITICAL.
C10_Witness ==
  /\ call.op = "SetVerbosity"
  /\ call.level = CRITICAL + 1
  /\ verbosity = CRITICAL

\* The prefix flags in force, in the order of OverridePrefix's parameters.
Flags == <<prefixTS, prefixCaller, prefixLevel>>

\* This step popped exactly one override layer: the stack lost its last
\* triple, and the flags are that triple.
PoppedOne ==
  /\ Len(overrideStack) >= 3
  /\ overrideStack' = SubSeq(overrideStack, 1, Len(overrideStack) - 3)
  /\ Flags' = SubSeq(overrideStack, Len(overrideStack) - 2, Len(overrideStack))

AnyWriteFailed(ws) == \E i \in DOMAIN ws : ws[i].err

\* C4: overrides are consumed last in, first out, one per emission: an
\* emission at LOG..ERROR made with layers pending is formatted with the
\* flags of the latest OverridePrefix and pops exactly that layer.
C4_OverridesLIFO ==
  [][(call'.op \in LeveledOps /\ outcome'.result = "returned"
        /\ Len(overrideStack) >= 3)
       => /\ written' # <<>>
               => written'[1].text = getLogPrefix(Self, call'.level)
                                       \o Sprintf(call'.format, call'.a)
          /\ PoppedOne]_vars

\* The order C4 describes, for the emissions none of whose writes fails.
OverridesLIFOWhenWritten ==
  [][(call'.op \in LeveledOps /\ outcome'.result = "returned"
        /\ ~AnyWriteFailed(written') /\ Len(overrideStack) >= 3)
       => /\ written' # <<>>
               => written'[1].text = getLogPrefix(Self, call'.level)
                                       \o Sprintf(call'.format, call'.a)
          /\ PoppedOne]_vars

\* C5: an emission below the verbosity writes nothing and pops exactly one
\* override layer when one is pending; with none pending it changes nothing.
C5_SuppressedStillPops ==
  [][(call'.op \in LeveledOps /\ call'.level < verbosity)
       => /\ written' = <<>>
          /\ outcome'.result = "returned"
          /\ verbosity' = verbosity
          /\ output' = output
          /\ IF Len(overrideStack) >= 3
             THEN PoppedOne
             ELSE overrideStack' = overrideStack /\ Flags' = Flags]_vars

\* C5 witness: a suppressed Logln took one of two pending layers; the first
\* layer is still pending and the flags are those the second one had saved.
C5_Witness ==
  /\ call.op = "Logln"
  /\ call.level < verbosity
  /\ written = <<>>
  /\ Len(overrideStack) = 3
  /\ Flags = <<TRUE, TRUE, TRUE>>

\* C6: a Critical/Criticalf/Criticalln call made with an override pending
\* pops one layer, so the flags are again those before that OverridePrefix.
C6_CriticalConsumesOverride ==
  [][(call'.op \in CriticalOps /\ Len(overrideStack) >= 3) => PoppedOne]_vars

\* C7: an emission whose sink write fails pops, as a whole, exactly one of
\* the m >= 1 pending layers.
C7_FailedWritePopsOne ==
  [][(call'.op \in LeveledOps /\ outcome'.result = "returned"
        /\ AnyWriteFailed(written') /\ Len(overrideStack) >= 3)
       => PoppedOne]_vars

\* C8 as claimed: the diagnostic of a failed write goes to the sink
\* configured for ERROR.
C8_DiagToErrorSink ==
  (call.op \in LeveledOps \cup ProgressOps /\ outcome.result = "returned"
     /\ output[ERROR] # NIL)
    => \A i \in DOMAIN written :
         written[i].err
           => /\ i < Len(written)
              /\ written[i + 1].level = ERROR
              /\ written[i + 1].w = output[ERROR]

\* C8 as amended: a failed write is not returned to the caller; logf answers
\* it with an ERROR-level diagnostic written to os.Stderr, whatever sink is
\* configured for ERROR, at every verbosity at which the message was emitted;
\* the call returns once a write succeeds, and only a diagnostic that fails
\* at every depth ends it otherwise.
C8_DiagToStderr ==
  call.op \in LeveledOps \cup ProgressOps
    => /\ \A i \in DOMAIN written :
            written[i].err
              => IF i < Len(written)
                 THEN /\ written[i + 1].level = ERROR
                      /\ written[i + 1].w = Stderr
                      /\ SubSeq(written[i + 1].text, Len(written[i + 1].text) - 1,
                                Len(written[i + 1].text))
                           = <<"logging.Logf(): ", "<write error>">>
                 ELSE outcome.result = "fatal"
       /\ (written # <<>> /\ ~written[Len(written)].err) => outcome.result = "returned"

\* C8 witness: with ERROR redirected to os.Stdout and the verbosity at ERROR,
\* the write of Error failed and its diagnostic was written to os.Stderr.
C8_Witness ==
  /\ call.op = "Error"
  /\ verbosity = ERROR
  /\ output[ERROR] = Stdout
  /\ Len(written) = 2
  /\ written[1].w = Stdout /\ written[1].err
  /\ written[2].w = Stderr /\ ~written[2].err
  /\ outcome.result = "returned"

C11_VerbosityStep ==
  [][/\ call'.op = "IncreaseVerbosity"
          => /\ verbosity' = IF verbosity = CRITICAL THEN CRITICAL ELSE verbosity + 1
             /\ outcome' = [result |-> "returned", payload |-> <<verbosity'>>]
             /\ output' = output /\ overrideStack' = overrideStack /\ Flags' = Flags
     /\ call'.op = "DecreaseVerbosity"
          => /\ verbosity' = IF verbosity = LOG THEN LOG ELSE verbosity - 1
             /\ outcome' = [result |-> "returned", payload |-> <<verbosity'>>]
             /\ output' = output /\ overrideStack' = overrideStack /\ Flags' = Flags]_vars

\* C11 witness: IncreaseVerbosity returned CRITICAL, with an override layer
\* pending and a prefix flag set.
C11_Witness ==
  /\ call.op = "IncreaseVerbosity"
  /\ verbosity = CRITICAL
  /\ outcome.payload = <<CRITICAL>>
  /\ overrideStack # <<>>
  /\ prefixTS

\* s is n copies of symbol, end to end.
Copies(s, symbol, n) ==
  /\ Len(s) = n * Len(symbol)
  /\ \A i \in DOMAIN s : s[i] = symbol[((i - 1) % Len(symbol)) + 1]

\* C12: for max >= 1 and progressMax >= 1 whose products fit in int, what
\* Progress returns over cur = 0..max-1 adds up to exactly progressMax copies
\* of symbol.
C12_BarIsProgressMax ==
  (bar.max >= 1 /\ bar.progressMax >= 1 /\ bar.max * bar.progressMax <= MaxInt
     /\ bar.cur >= bar.max)
    => Copies(bar.printed, bar.symbol, bar.progressMax)

\* C12 witness: a bar of 5 over a range of 3, which no even share gives, is
\* complete after the last position.
C12_Witness ==
  /\ call.op = "Progress"
  /\ bar.max = 3 /\ bar.progressMax = 5 /\ bar.cur = 3
  /\ bar.symbol = <<"=", ">">>
  /\ Len(bar.printed) = 10

\* What the documentation of Progress gives position cur: the part of the bar
\* between floor(cur*progressMax/max) and floor((cur+1)*progressMax/max), in
\* unbounded arithmetic.
Share(cur, max, progressMax) ==
  (((cur + 1) * progressMax) \div max) - ((cur * progressMax) \div max)

\* C13: Progress returns the empty string when max < 1, progressMax < 1,
\* cur < 0 or cur >= max, and otherwise exactly
\* floor((cur+1)*progressMax/max) - floor(cur*progressMax/max) copies of symbol.
C13_ProgressFormula ==
  call.op = "Progress"
    => LET cur == call.a[1]
           max == call.a[2]
           progressMax == call.a[3]
           symbol == call.a[4]
       IN  IF max < 1 \/ progressMax < 1 \/ cur < 0 \/ cur >= max
           THEN outcome.payload = <<>>
           ELSE Copies(outcome.payload, symbol, Share(cur, max, progressMax))

\* The formula of C13 for the positions whose products fit in int.
ProgressFormulaWithinInt ==
  (call.op = "Progress" /\ (call.a[1] + 1) * call.a[3] <= MaxInt)
    => C13_ProgressFormula

\* This step left the prefix flags and the override stack as they were.
PrefixesUntouched == Flags' = Flags /\ overrideStack' = overrideStack

\* C14: an XProgress call writes its progress string, when that is not empty
\* and not suppressed, with all three prefixes off whatever the flags are; and
\* when the string is empty, suppressed or written successfully, the call
\* leaves the prefix flags and the override stack, pending layers included, as
\* they were.  The step's call.format is the progress string.
C14_ProgressUnprefixed ==
  [][call'.op \in ProgressOps
       => /\ (call'.format # <<>> /\ call'.level >= verbosity
                 /\ ~AnyWriteFailed(written'))
               => written' = <<Written(output[call'.level], call'.level,
                                       call'.format, FALSE)>>
          /\ (\/ call'.format = <<>>
              \/ call'.level < verbosity
              \/ outcome'.result = "returned" /\ ~AnyWriteFailed(written'))
               => PrefixesUntouched]_vars

\* What does hold of an XProgress call: the string goes through Fprintf as a
\* format, without prefix, and the flags and the stack are left as they were.
ProgressFormattedUnprefixed ==
  [][call'.op \in ProgressOps
       => /\ (call'.format # <<>> /\ call'.level >= verbosity
                 /\ ~AnyWriteFailed(written'))
               => written' = <<Written(output[call'.level], call'.level,
                                       Sprintf(call'.format, <<>>), FALSE)>>
          /\ (call'.format = <<>> \/ call'.level < verbosity)
               => written' = <<>> /\ outcome'.result = "returned"
          /\ (\/ call'.format = <<>>
              \/ call'.level < verbosity
              \/ outcome'.result = "returned" /\ ~AnyWriteFailed(written'))
               => PrefixesUntouched]_vars

\* C15: every emission call terminates, returning or (for CRITICAL) raising,
\* even when sink writes fail: the diagnostic path does not recurse without
\* bound when the write of the diagnostic itself fails.
C15_EmissionTerminates ==
  call.op \in LeveledOps \cup ProgressOps \cup CriticalOps
    => outcome.result \in {"returned", "panic"}

\* What bounds the recursion: it ends at the first write that succeeds, so a
\* call none of whose writes fails, or whose last write succeeds, returns.
RecursionEndsWithWrite ==
  (call.op \in LeveledOps \cup ProgressOps
     /\ (written = <<>> \/ ~written[Len(written)].err))
    => outcome.result \in {"returned", "panic"}

SetPrefixOps == {"SetPrefixTimestamp", "SetPrefixCaller", "SetPrefixLevel"}

\* The triple the latest OverridePrefix saved.
SavedFlags == SubSeq(overrideStack, Len(overrideStack) - 2, Len(overrideStack))

\* C16: a SetPrefixTimestamp/SetPrefixCaller/SetPrefixLevel call made while
\* an override layer is pending has no lasting effect: after the emission that
\* follows it, the three flags are the values saved at OverridePrefix time,
\* not the value just set.
C16_SetterOverwritten ==
  [][(call.op \in SetPrefixOps /\ Len(overrideStack) >= 3
        /\ call'.op \in LeveledOps \cup CriticalOps /\ outcome'.result # "fatal")
       => Flags' = SavedFlags]_vars

\* The overwriting C16 describes, for the emissions that return and none of
\* whose writes fails.
SetterOverwrittenWhenWritten ==
  [][(call.op \in SetPrefixOps /\ Len(overrideStack) >= 3
        /\ call'.op \in LeveledOps /\ outcome'.result = "returned"
        /\ ~AnyWriteFailed(written'))
       => Flags' = SavedFlags /\ PoppedOne]_vars

====
